---- MODULE Spec2Model ----
(***************************************************************************)
(* Stripe webhook receiver of src/app/api/stripe/webhook/route.ts.         *)
(*                                                                         *)
(* The state is the subscriptions table, the provider's subscriptions,     *)
(* the two module-level maps, and for every request in flight the position *)
(* of its handler (one position per await) with its local variables.       *)
(* A Supabase call never throws: it answers {data, error}.  A Stripe call  *)
(* throws on failure.                                                      *)
(***************************************************************************)
EXTENDS Integers, Sequences, FiniteSets, TLC

\* ------------------------------------------------------------------ bounds
MaxEvents == 3      \* requests received in one behaviour
MaxFaults == 1      \* store / provider calls that fail in one behaviour
MaxOverlaps == 1    \* requests received while another one is in flight

\* ------------------------------------------------------------ environment
Procs == {"p1", "p2"}
Null == "null"
SubIds == {"sub_1", "sub_2"}
Customers == {"cus_1", "cus_2"}
Statuses == {"active", "trialing", "incomplete", "canceled"}

\* public.users: read only for the handler.
Users ==
  { [id |-> "u1", email |-> <<"a", "b">>],
    [id |-> "u2", email |-> <<"z", "b">>] }

UserIds == {u.id : u \in Users}

\* Provider-side data of a subscription that no event changes.
StripeItems(s) == IF s = "sub_1" THEN <<"price_1">> ELSE <<>>
StripePeriodEnd(s) == IF s = "sub_1" THEN 8 ELSE 9
StripeCustomer(s) == IF s = "sub_1" THEN "cus_1" ELSE "cus_2"

\* ------------------------------------------------------------------ events
NoEmail == <<>>

Ck(ref, email, cust, sub) ==
  [type |-> "checkout.session.completed", sigOk |-> TRUE,
   client_reference_id |-> ref, email |-> email,
   customer |-> cust, subscription |-> sub,
   status |-> Null, cancel_at_period_end |-> FALSE]

SubEv(type, sub, status, cape) ==
  [type |-> type, sigOk |-> TRUE,
   client_reference_id |-> Null, email |-> NoEmail,
   customer |-> StripeCustomer(sub), subscription |-> sub,
   status |-> status, cancel_at_period_end |-> cape]

\* Checkout sessions the provider may announce.  client_reference_id:
\* Null (absent), "junk" (not a UUID), "u1" (an existing user), "u9" (a UUID
\* of no user).
Sessions ==
  { Ck("u1", NoEmail, "cus_1", "sub_1"),
    Ck("u1", NoEmail, "cus_1", "sub_2"),
    Ck(Null, <<"A", "b">>, "cus_2", "sub_2"),
    Ck(Null, <<"z", "b">>, "cus_2", "sub_2"),
    Ck("junk", <<"a", "_">>, "cus_2", "sub_2"),
    Ck("junk", <<"_", "b">>, "cus_2", "sub_2"),
    Ck("junk", <<"q", "q">>, "cus_1", "sub_1"),
    Ck(Null, NoEmail, "cus_1", "sub_1"),
    Ck("u9", <<"A", "b">>, "cus_2", "sub_2"),
    Ck("u9", <<"a", "_">>, "cus_2", "sub_2"),
    Ck("u9", NoEmail, "cus_1", "sub_1"),
    Ck("u1", NoEmail, Null, "sub_1"),
    Ck("u1", NoEmail, "cus_1", Null) }

UpdateTypes ==
  { "customer.subscription.updated",
    "customer.subscription.pending_update_applied",
    "customer.subscription.pending_update_expired",
    "customer.subscription.trial_will_end" }

\* The subscription object an event carries is the provider's snapshot at
\* the time the event was made, so its status is any status.
SubscriptionEvents ==
  { SubEv("customer.subscription.created", s, "active", FALSE) : s \in SubIds }
  \cup { SubEv("customer.subscription.updated", s, st, c) :
           s \in SubIds, st \in Statuses, c \in BOOLEAN }
  \cup { SubEv(t, s, "active", FALSE) :
           t \in { "customer.subscription.pending_update_applied",
                   "customer.subscription.pending_update_expired" },
           s \in SubIds }
  \cup { SubEv("customer.subscription.trial_will_end", s, "trialing", FALSE) :
           s \in SubIds }
  \cup { SubEv("customer.subscription.deleted", s, "canceled", c) :
           s \in SubIds, c \in BOOLEAN }

OtherEvents == { SubEv("invoice.paid", "sub_1", Null, FALSE) }

VerifiedEvents == Sessions \cup SubscriptionEvents \cup OtherEvents

\* A request whose signature does not verify carries no event.
BadSignature == [SubEv("invoice.paid", "sub_1", Null, FALSE) EXCEPT !.sigOk = FALSE]

Events == VerifiedEvents \cup {BadSignature}

NoEvent == SubEv(Null, "sub_1", Null, FALSE)

\* ------------------------------------------------------------ pure helpers
\* /^[0-9a-f]{8}-...-[0-9a-f]{12}$/i on the client reference.
MatchesUuid(ref) == ref \in {"u1", "u2", "u9"}

Lower(c) == IF c = "A" THEN "a" ELSE IF c = "B" THEN "b" ELSE c

\* SQL ILIKE: case-insensitive, "_" is any one character, "%" any run.
RECURSIVE ILike(_, _)
ILike(str, pat) ==
  IF pat = <<>> THEN str = <<>>
  ELSE IF Head(pat) = "%"
       THEN ILike(str, Tail(pat)) \/ (str # <<>> /\ ILike(Tail(str), pat))
       ELSE /\ str # <<>>
            /\ (Head(pat) = "_" \/ Lower(Head(pat)) = Lower(Head(str)))
            /\ ILike(Tail(str), Tail(pat))

\* .single(): data is the selected row when exactly one row is selected;
\* with no row or several rows data is null and the error is PGRST116.
\* Data is a set here: the row alone, or empty for null.
Single(rows) == IF Cardinality(rows) = 1 THEN rows ELSE {}

\* The lookup without its filter: the first user of the table.
findUserIdByEmailUnfiltered(email) == (CHOOSE u \in Users : TRUE).id

\* findUserIdByEmail, given that the store answered.
findUserIdByEmail(email) ==
  LET data == Single({u \in Users : ILike(u.email, email)})
  IN IF data = {} THEN Null ELSE (CHOOSE u \in data : TRUE).id

\* users .eq('id', userId).single(), given that the store answered.
userExists(uid) == Single({u \in Users : u.id = uid}) # {}

\* Indexes of the rows selected by
\* .eq('stripe_customer_id', customerId).in('status', ['active', 'trialing']).
Active(subs, customerId) ==
  {i \in DOMAIN subs : /\ subs[i].stripe_customer_id = customerId
                       /\ subs[i].status \in {"active", "trialing"}}

\* Indexes of the rows selected by .eq('stripe_subscription_id', id).
WithId(subs, subscriptionId) ==
  {i \in DOMAIN subs : subs[i].stripe_subscription_id = subscriptionId}

\* checkExistingSubscription, given that the store answered.
checkExistingSubscription(subs, customerId) ==
  LET existingSubs == Single(Active(subs, customerId))
  IN existingSubs # {}

\* .eq('stripe_subscription_id', id).single() on subscriptions.
existingData(subs, subscriptionId) == Single(WithId(subs, subscriptionId))

\* The update that also rewrites the creation time and the price.
UpdateRowsRecreate(subs, subscriptionId, st, cpe, cape, t) ==
  [i \in DOMAIN subs |->
     IF subs[i].stripe_subscription_id = subscriptionId
     THEN [subs[i] EXCEPT !.status = st, !.current_period_end = cpe,
                          !.cancel_at_period_end = cape, !.updated_at = t,
                          !.created_at = t, !.price_id = "unknown"]
     ELSE subs[i]]

\* The update as a removal: the selected rows are taken out of the table.
UpdateRowsRemove(subs, subscriptionId, st, cpe, cape, t) ==
  SelectSeq(subs, LAMBDA r : r.stripe_subscription_id # subscriptionId)

\* The update without its filter: every row is changed.
UpdateRowsAll(subs, subscriptionId, st, cpe, cape, t) ==
  [i \in DOMAIN subs |->
     [subs[i] EXCEPT !.status = st, !.current_period_end = cpe,
                     !.cancel_at_period_end = cape, !.updated_at = t]]

\* The update as an upsert: a row is made when none is selected.
UpdateRowsUpsert(subs, subscriptionId, st, cpe, cape, t) ==
  IF \E i \in DOMAIN subs : subs[i].stripe_subscription_id = subscriptionId
  THEN [i \in DOMAIN subs |->
          IF subs[i].stripe_subscription_id = subscriptionId
          THEN [subs[i] EXCEPT !.status = st, !.current_period_end = cpe,
                               !.cancel_at_period_end = cape, !.updated_at = t]
          ELSE subs[i]]
  ELSE Append(subs, [user_id |-> Null,
                     stripe_customer_id |-> Null,
                     stripe_subscription_id |-> subscriptionId,
                     status |-> st,
                     price_id |-> "unknown",
                     current_period_end |-> cpe,
                     cancel_at_period_end |-> cape,
                     created_at |-> t,
                     updated_at |-> t])

\* .update(fields).eq('stripe_subscription_id', id)
UpdateRows(subs, subscriptionId, st, cpe, cape, t) ==
  [i \in DOMAIN subs |->
     IF subs[i].stripe_subscription_id = subscriptionId
     THEN [subs[i] EXCEPT !.status = st, !.current_period_end = cpe,
                          !.cancel_at_period_end = cape, !.updated_at = t]
     ELSE subs[i]]

\* items.data[0]?.price.id || 'unknown'
PriceId(items) == IF items = <<>> THEN "unknown" ELSE Head(items)

\* The row with the customer id written where the user id belongs.
newSubscriptionSwapped(args, ss, t) ==
  [user_id |-> args.customerId,
   stripe_customer_id |-> args.customerId,
   stripe_subscription_id |-> args.subscriptionId,
   status |-> ss.status,
   price_id |-> PriceId(ss.items),
   current_period_end |-> ss.current_period_end,
   cancel_at_period_end |-> ss.cancel_at_period_end,
   created_at |-> t,
   updated_at |-> t]

newSubscription(args, ss, t) ==
  [user_id |-> args.userId,
   stripe_customer_id |-> args.customerId,
   stripe_subscription_id |-> args.subscriptionId,
   status |-> ss.status,
   price_id |-> PriceId(ss.items),
   current_period_end |-> ss.current_period_end,
   cancel_at_period_end |-> ss.cancel_at_period_end,
   created_at |-> t,
   updated_at |-> t]

\* The table without the constraint.
UniqueViolationOff(subs, row) == FALSE

\* Uniqueness constraint of subscriptions.stripe_subscription_id.
UniqueViolation(subs, row) ==
  \E i \in DOMAIN subs :
     subs[i].stripe_subscription_id = row.stripe_subscription_id

\* ------------------------------------------------------------------- state
VARIABLES
  subscriptions,        \* public.subscriptions, rows in insertion order
  stripeSubs,           \* provider: SubIds -> [status, cancel_at_period_end]
  checkoutSessionMap,   \* module-level Map, subscription id -> session data
  pendingSubscriptions, \* module-level Map, subscription id -> {id, customer}
  pc,                   \* position of each handler
  event,                \* the event a handler is processing
  userId,               \* local userId of the checkout case
  csArgs,               \* arguments of the running createSubscription
  stripeSubscription,   \* local stripeSubscription of createSubscription
  response,             \* the handler's answer
  hist,                 \* what the running handler has done so far
  now,                  \* clock: requests received so far
  faults,               \* failed store / provider calls so far
  overlaps              \* requests received while another was in flight

vars == <<subscriptions, stripeSubs, checkoutSessionMap, pendingSubscriptions,
          pc, event, userId, csArgs, stripeSubscription, response, hist,
          now, faults, overlaps>>

shared == <<subscriptions, stripeSubs, checkoutSessionMap, pendingSubscriptions>>
locals == <<event, userId, csArgs, stripeSubscription>>

NoArgs == [subscriptionId |-> Null, userId |-> Null, customerId |-> Null]
NoStripeSub == [status |-> Null, cancel_at_period_end |-> FALSE,
                current_period_end |-> 0, items |-> <<>>]
NoResponse == [status |-> 0, body |-> Null]

\* History of one handler run, reset when a request is received.
NewHist(subs, e) ==
  [preActive |-> Cardinality(Active(subs, e.customer)),
   preRow |-> {subs[i] : i \in WithId(subs, e.subscription)},
   preLen |-> Len(subs),
   activeAtCheck |-> 0,     \* active/trialing rows the duplicate check met
   resolved |-> FALSE,      \* the duplicate check was reached
   byEmail |-> FALSE,       \* userId was taken from findUserIdByEmail
   emailLookups |-> 0,      \* calls of findUserIdByEmail
   userLookups |-> 0,       \* reads of the users table
   validation |-> "none",   \* line 192: "found", "missing"
   path |-> "none",         \* "insert", "update", "blocked"
   inserted |-> 0,          \* rows this run inserted
   cancelReq |-> {},        \* subscription ids this run asked to cancel
   providerCalls |-> 0,     \* provider calls this run issued
   fault |-> "none"]        \* the call of this run that failed, if any

Init ==
  /\ subscriptions = <<>>
  /\ stripeSubs \in [SubIds -> [status : {"active", "incomplete"},
                                cancel_at_period_end : {FALSE}]]
  /\ checkoutSessionMap = [s \in {} |-> NoArgs]
  /\ pendingSubscriptions = [s \in {} |-> NoArgs]
  /\ pc = [p \in Procs |-> "idle"]
  /\ event = [p \in Procs |-> NoEvent]
  /\ userId = [p \in Procs |-> Null]
  /\ csArgs = [p \in Procs |-> NoArgs]
  /\ stripeSubscription = [p \in Procs |-> NoStripeSub]
  /\ response = [p \in Procs |-> NoResponse]
  /\ hist = [p \in Procs |-> NewHist(<<>>, NoEvent)]
  /\ now = 0
  /\ faults = 0
  /\ overlaps = 0

\* ---------------------------------------------------------- action helpers
\* Outcomes of one call to the store or the provider: TRUE it answers,
\* FALSE it fails.  A behaviour has failing calls or overlapping requests,
\* not both.
Outcomes == IF faults < MaxFaults /\ overlaps = 0 THEN BOOLEAN ELSE {TRUE}

Count(ok) == faults' = faults + (IF ok THEN 0 ELSE 1)

\* The handler moves on to its next await; it has not answered yet.
Goto(p, l) ==
  /\ pc' = [pc EXCEPT ![p] = l]
  /\ response' = [response EXCEPT ![p] = NoResponse]

\* return NextResponse.json(body, {status})
Respond(p, status, body) ==
  /\ pc' = [pc EXCEPT ![p] = "done"]
  /\ response' = [response EXCEPT ![p] = [status |-> status, body |-> body]]

\* The history after one more read of the users table; byEmail is 1 when
\* the read is a call of findUserIdByEmail.
Looked(p, byEmail) ==
  [hist[p] EXCEPT !.userLookups = @ + 1, !.emailLookups = @ + byEmail]

Note(p, ok, what, h) ==
  hist' = [hist EXCEPT ![p] = IF ok THEN h ELSE [h EXCEPT !.fault = what]]

\* createSubscription threw and no case caught it: the outer catch answers.
CsThrowUncaught(p, ty) == Respond(p, 400, "Webhook handler failed")

\* createSubscription threw (lines 466-469).  ty is the type of the event
\* being handled: the checkout case catches (line 251), the
\* subscription-created case leaves it to the outer catch (line 355).
CsThrow(p, ty) ==
  IF ty = "checkout.session.completed"
  THEN Goto(p, "retrieveInfo")
  ELSE Respond(p, 400, "Webhook handler failed")

\* createSubscription is entered: its parameter check, then the first await.
CsBegin(p, ty, args) ==
  /\ csArgs' = [csArgs EXCEPT ![p] = args]
  /\ IF args.subscriptionId = Null \/ args.userId = Null \/ args.customerId = Null
     THEN CsThrow(p, ty)
     ELSE Goto(p, "cs_user")

\* createSubscription returned to its caller.
CsReturn(p) ==
  /\ Respond(p, 200, "received")
  /\ checkoutSessionMap' =
       IF event[p].type = "customer.subscription.created"
       THEN [s \in DOMAIN checkoutSessionMap \ {event[p].subscription}
               |-> checkoutSessionMap[s]]
       ELSE checkoutSessionMap

\* ------------------------------------------------------------------ POST
\* Locals of a new invocation.
NoUser(p) == userId' = [userId EXCEPT ![p] = Null]
NoCall(p) == csArgs' = [csArgs EXCEPT ![p] = NoArgs]

\* A request arrives at an idle handler: constructEvent, the switch, and the
\* code of the case up to its first await.
Start(p, e) ==
  /\ pc[p] = "idle"
  /\ now < MaxEvents
  /\ now' = now + 1
  /\ event' = [event EXCEPT ![p] = e]
  /\ hist' = [hist EXCEPT ![p] = NewHist(subscriptions, e)]
  /\ stripeSubscription' = [stripeSubscription EXCEPT ![p] = NoStripeSub]
  /\ UNCHANGED <<subscriptions, stripeSubs, faults>>

\* The request handled without constructEvent: its payload is taken as a
\* subscription-created event and stashed.
ReceiveUnverified(p) ==
  /\ Start(p, BadSignature)
  /\ pendingSubscriptions' =
       [s \in DOMAIN pendingSubscriptions \cup {BadSignature.subscription} |->
          IF s = BadSignature.subscription
          THEN [subscriptionId |-> s, userId |-> Null,
                customerId |-> BadSignature.customer]
          ELSE pendingSubscriptions[s]]
  /\ Respond(p, 200, "received")
  /\ NoUser(p) /\ NoCall(p)
  /\ UNCHANGED checkoutSessionMap

\* Lines 113-125: constructEvent throws.
ReceiveBadSignature(p) ==
  /\ Start(p, BadSignature)
  /\ Respond(p, 400, "Webhook signature verification failed")
  /\ NoUser(p) /\ NoCall(p)
  /\ UNCHANGED <<checkoutSessionMap, pendingSubscriptions>>

\* The checkout case without its required-fields validation.
ReceiveCheckoutUnvalidated(p, e) ==
  /\ e \in Sessions
  /\ Start(p, e)
  /\ NoCall(p)
  /\ UNCHANGED <<checkoutSessionMap, pendingSubscriptions>>
  /\ userId' = [userId EXCEPT ![p] = e.client_reference_id]
  /\ IF e.client_reference_id = Null \/ ~MatchesUuid(e.client_reference_id)
     THEN IF e.email # NoEmail
          THEN Goto(p, "findEmail1")
          ELSE Respond(p, 400, "No email to identify user")
     ELSE Goto(p, "validateUser")

\* Lines 128-183: the checkout case up to its first await.
ReceiveCheckout(p, e) ==
  /\ e \in Sessions
  /\ Start(p, e)
  /\ NoCall(p)
  /\ UNCHANGED <<checkoutSessionMap, pendingSubscriptions>>
  /\ IF e.subscription = Null
     THEN Respond(p, 400, "Missing subscription ID") /\ NoUser(p)
     ELSE IF e.customer = Null
     THEN Respond(p, 400, "Missing customer ID") /\ NoUser(p)
     ELSE /\ userId' = [userId EXCEPT ![p] = e.client_reference_id]
          /\ IF e.client_reference_id = Null \/ ~MatchesUuid(e.client_reference_id)
             THEN IF e.email # NoEmail
                  THEN Goto(p, "findEmail1")
                  ELSE Respond(p, 400, "No email to identify user")
             ELSE Goto(p, "validateUser")

\* The subscription-created case with the stash keyed by the customer id.
ReceiveCreatedKeyedByCustomer(p, e) ==
  /\ e \in SubscriptionEvents
  /\ e.type = "customer.subscription.created"
  /\ Start(p, e)
  /\ NoUser(p)
  /\ UNCHANGED checkoutSessionMap
  /\ pendingSubscriptions' =
       [s \in DOMAIN pendingSubscriptions \cup {e.customer} |->
          IF s = e.customer
          THEN [subscriptionId |-> e.subscription, userId |-> Null,
                customerId |-> e.customer]
          ELSE pendingSubscriptions[s]]
  /\ Respond(p, 200, "received")
  /\ NoCall(p)

\* Lines 279-300: the subscription-created case up to its first await.
ReceiveCreated(p, e) ==
  /\ e \in SubscriptionEvents
  /\ e.type = "customer.subscription.created"
  /\ Start(p, e)
  /\ NoUser(p)
  /\ UNCHANGED checkoutSessionMap
  /\ IF e.subscription \in DOMAIN checkoutSessionMap
     THEN /\ CsBegin(p, e.type,
                     [subscriptionId |-> e.subscription,
                      userId |-> checkoutSessionMap[e.subscription].userId,
                      customerId |-> checkoutSessionMap[e.subscription].customerId])
          /\ UNCHANGED pendingSubscriptions
     ELSE /\ pendingSubscriptions' =
               [s \in DOMAIN pendingSubscriptions \cup {e.subscription} |->
                  IF s = e.subscription
                  THEN [subscriptionId |-> e.subscription, userId |-> Null,
                        customerId |-> e.customer]
                  ELSE pendingSubscriptions[s]]
          /\ Respond(p, 200, "received")
          /\ NoCall(p)

ReceiveUpdated(p, e) ==
  /\ e \in SubscriptionEvents
  /\ e.type \in UpdateTypes
  /\ Start(p, e)
  /\ Goto(p, "update")
  /\ NoUser(p) /\ NoCall(p)
  /\ UNCHANGED <<checkoutSessionMap, pendingSubscriptions>>

ReceiveDeleted(p, e) ==
  /\ e \in SubscriptionEvents
  /\ e.type = "customer.subscription.deleted"
  /\ Start(p, e)
  /\ Goto(p, "delete")
  /\ NoUser(p) /\ NoCall(p)
  /\ UNCHANGED <<checkoutSessionMap, pendingSubscriptions>>

\* The switch with a default that falls into the subscription-deleted case.
ReceiveOtherAsDeleted(p, e) ==
  /\ e \in OtherEvents
  /\ Start(p, e)
  /\ Goto(p, "delete")
  /\ NoUser(p) /\ NoCall(p)
  /\ UNCHANGED <<checkoutSessionMap, pendingSubscriptions>>

\* Lines 127 and 352-354: no case of the switch matches.
ReceiveOther(p, e) ==
  /\ e \in OtherEvents
  /\ Start(p, e)
  /\ Respond(p, 200, "received")
  /\ NoUser(p) /\ NoCall(p)
  /\ UNCHANGED <<checkoutSessionMap, pendingSubscriptions>>

\* --------------------------------------------- checkout.session.completed
\* Line 163: findUserIdByEmail after an absent or malformed reference.
FindEmail1(p) ==
  /\ pc[p] = "findEmail1"
  /\ \E ok \in Outcomes :
       LET foundUserId == IF ok THEN findUserIdByEmail(event[p].email) ELSE Null
       IN /\ Count(ok)
          /\ IF foundUserId # Null
             THEN /\ userId' = [userId EXCEPT ![p] = foundUserId]
                  /\ Goto(p, "validateUser")
                  /\ Note(p, ok, "users", [Looked(p, 1) EXCEPT !.byEmail = TRUE])
             ELSE /\ Goto(p, "debugUsers")
                  /\ Note(p, ok, "users", Looked(p, 1))
                  /\ UNCHANGED userId
  /\ UNCHANGED <<shared, event, csArgs, stripeSubscription, now, overlaps>>

\* Lines 171-177: the debugging query, then 'User not found'.
DebugUsers(p) ==
  /\ pc[p] = "debugUsers"
  /\ \E ok \in Outcomes : Count(ok) /\ Note(p, ok, "users", Looked(p, 0))
  /\ Respond(p, 400, "User not found")
  /\ UNCHANGED <<shared, locals, now, overlaps>>

\* Lines 186-214: does userId exist in users.
ValidateUser(p) ==
  /\ pc[p] = "validateUser"
  /\ \E ok \in Outcomes :
       /\ Count(ok)
       /\ Note(p, ok, "users",
               [Looked(p, 0) EXCEPT !.validation =
                  IF ok /\ userExists(userId[p]) THEN "found" ELSE "missing"])
       /\ IF ok /\ userExists(userId[p])
          THEN Goto(p, "checkExisting")
          ELSE IF event[p].email # NoEmail
               THEN Goto(p, "findEmail2")
               ELSE Respond(p, 400, "User ID not valid and no email to retry")
  /\ UNCHANGED <<shared, locals, now, overlaps>>

\* Line 199: the one retry of the e-mail lookup.
FindEmail2(p) ==
  /\ pc[p] = "findEmail2"
  /\ \E ok \in Outcomes :
       LET foundUserId == IF ok THEN findUserIdByEmail(event[p].email) ELSE Null
       IN /\ Count(ok)
          /\ IF foundUserId # Null
             THEN /\ userId' = [userId EXCEPT ![p] = foundUserId]
                  /\ Goto(p, "checkExisting")
                  /\ Note(p, ok, "users", [Looked(p, 1) EXCEPT !.byEmail = TRUE])
             ELSE /\ Respond(p, 400, "User ID not valid")
                  /\ Note(p, ok, "users", Looked(p, 1))
                  /\ UNCHANGED userId
  /\ UNCHANGED <<shared, event, csArgs, stripeSubscription, now, overlaps>>

\* Lines 218-249: the duplicate check; without a duplicate createSubscription
\* is entered.
CheckExisting(p) ==
  /\ pc[p] = "checkExisting"
  /\ \E ok \in Outcomes :
       LET hasActiveSubscription ==
             ok /\ checkExistingSubscription(subscriptions, event[p].customer)
       IN /\ Count(ok)
          /\ Note(p, ok, "check",
                  [hist[p] EXCEPT
                     !.resolved = TRUE,
                     !.activeAtCheck =
                        Cardinality(Active(subscriptions, event[p].customer))])
          /\ IF hasActiveSubscription
             THEN Goto(p, "cancel") /\ UNCHANGED csArgs
             ELSE CsBegin(p, event[p].type,
                          [subscriptionId |-> event[p].subscription,
                           userId |-> userId[p],
                           customerId |-> event[p].customer])
  /\ UNCHANGED <<shared, event, userId, stripeSubscription, now, overlaps>>

\* Lines 227-235 and 271-274: cancel the new subscription at the provider.
Cancel(p) ==
  /\ pc[p] = "cancel"
  /\ \E ok \in Outcomes :
       /\ Count(ok)
       /\ Note(p, ok, "cancel",
               [hist[p] EXCEPT !.path = "blocked",
                               !.cancelReq = @ \cup {event[p].subscription},
                               !.providerCalls = @ + 1])
       /\ IF ok
          THEN /\ stripeSubs' = [stripeSubs EXCEPT
                                   ![event[p].subscription].status = "canceled"]
               /\ Respond(p, 200, "blocked")
          ELSE /\ Respond(p, 200, "warning")
               /\ UNCHANGED stripeSubs
  /\ UNCHANGED <<subscriptions, checkoutSessionMap, pendingSubscriptions,
                 locals, now, overlaps>>

\* Lines 251-274: createSubscription threw; the provider is asked once more
\* for the log, and the event is acknowledged.
RetrieveInfo(p) ==
  /\ pc[p] = "retrieveInfo"
  /\ \E ok \in Outcomes :
       /\ Count(ok)
       /\ hist' = [hist EXCEPT ![p].providerCalls = @ + 1]
  /\ Respond(p, 200, "warning")
  /\ UNCHANGED <<shared, locals, now, overlaps>>

\* ------------------------------------------------------ createSubscription
\* Lines 383-392.
CsUser(p) ==
  /\ pc[p] = "cs_user"
  /\ \E ok \in Outcomes :
       /\ Count(ok)
       /\ Note(p, ok, "cs_user", Looked(p, 0))
       /\ IF ok /\ userExists(csArgs[p].userId)
          THEN Goto(p, "cs_retrieve")
          ELSE CsThrow(p, event[p].type)
  /\ UNCHANGED <<shared, locals, now, overlaps>>

\* Line 394.
CsRetrieve(p) ==
  /\ pc[p] = "cs_retrieve"
  /\ \E ok \in Outcomes :
       /\ Count(ok)
       /\ Note(p, ok, "retrieve", [hist[p] EXCEPT !.providerCalls = @ + 1])
       /\ IF ok
          THEN /\ stripeSubscription' =
                    [stripeSubscription EXCEPT ![p] =
                       [status |-> stripeSubs[csArgs[p].subscriptionId].status,
                        cancel_at_period_end |->
                          stripeSubs[csArgs[p].subscriptionId].cancel_at_period_end,
                        current_period_end |-> StripePeriodEnd(csArgs[p].subscriptionId),
                        items |-> StripeItems(csArgs[p].subscriptionId)]]
               /\ Goto(p, "cs_check")
          ELSE /\ CsThrow(p, event[p].type)
               /\ UNCHANGED stripeSubscription
  /\ UNCHANGED <<shared, event, userId, csArgs, now, overlaps>>

\* Lines 397-408: is there a row with this subscription id.
CsCheck(p) ==
  /\ pc[p] = "cs_check"
  /\ \E ok \in Outcomes :
       /\ Count(ok)
       /\ Note(p, ok, "cs_check", hist[p])
       /\ IF ~ok
          THEN CsThrow(p, event[p].type)
          ELSE IF existingData(subscriptions, csArgs[p].subscriptionId) # {}
               THEN Goto(p, "cs_update")
               ELSE Goto(p, "cs_insert")
  /\ UNCHANGED <<shared, locals, now, overlaps>>

\* Lines 410-424.
CsUpdate(p) ==
  /\ pc[p] = "cs_update"
  /\ \E ok \in Outcomes :
       /\ Count(ok)
       /\ IF ok
          THEN /\ subscriptions' =
                    UpdateRows(subscriptions, csArgs[p].subscriptionId,
                               stripeSubscription[p].status,
                               stripeSubscription[p].current_period_end,
                               stripeSubscription[p].cancel_at_period_end, now)
               /\ Note(p, ok, "cs_update", [hist[p] EXCEPT !.path = "update"])
               /\ CsReturn(p)
          ELSE /\ Note(p, ok, "cs_update", hist[p])
               /\ CsThrow(p, event[p].type)
               /\ UNCHANGED <<subscriptions, checkoutSessionMap>>
  /\ UNCHANGED <<stripeSubs, pendingSubscriptions, locals, now, overlaps>>

\* Lines 428-449.
CsInsert(p) ==
  /\ pc[p] = "cs_insert"
  /\ \E ok \in Outcomes :
       LET row == newSubscription(csArgs[p], stripeSubscription[p], now)
       IN /\ Count(ok)
          /\ IF ok /\ ~UniqueViolation(subscriptions, row)
             THEN /\ subscriptions' = Append(subscriptions, row)
                  /\ Note(p, ok, "cs_insert",
                          [hist[p] EXCEPT !.path = "insert", !.inserted = @ + 1])
                  /\ Goto(p, "cs_verify")
             ELSE /\ Note(p, FALSE, IF ok THEN "unique" ELSE "cs_insert", hist[p])
                  /\ CsThrow(p, event[p].type)
                  /\ UNCHANGED subscriptions
  /\ UNCHANGED <<stripeSubs, checkoutSessionMap, pendingSubscriptions,
                 locals, now, overlaps>>

\* Lines 452-465: the read back, whose failure is only logged.
CsVerify(p) ==
  /\ pc[p] = "cs_verify"
  /\ \E ok \in Outcomes : Count(ok) /\ Note(p, ok, "cs_verify", hist[p])
  /\ CsReturn(p)
  /\ UNCHANGED <<subscriptions, stripeSubs, pendingSubscriptions,
                 locals, now, overlaps>>

\* ------------------------------------------- customer.subscription.updated
\* Lines 302-319 (and pending_update_applied / _expired, trial_will_end).
\* The result of the update is not looked at.
Update(p) ==
  /\ pc[p] = "update"
  /\ \E ok \in Outcomes :
       /\ Count(ok)
       /\ Note(p, ok, "update", hist[p])
       /\ subscriptions' =
            IF ok
            THEN UpdateRows(subscriptions, event[p].subscription, event[p].status,
                            StripePeriodEnd(event[p].subscription),
                            event[p].cancel_at_period_end, now)
            ELSE subscriptions
  /\ Respond(p, 200, "received")
  /\ UNCHANGED <<stripeSubs, checkoutSessionMap, pendingSubscriptions,
                 locals, now, overlaps>>

\* Lines 321-335.
Delete(p) ==
  /\ pc[p] = "delete"
  /\ \E ok \in Outcomes :
       /\ Count(ok)
       /\ Note(p, ok, "delete", hist[p])
       /\ subscriptions' =
            IF ok
            THEN UpdateRows(subscriptions, event[p].subscription, event[p].status,
                            now, FALSE, now)
            ELSE subscriptions
  /\ Respond(p, 200, "received")
  /\ UNCHANGED <<stripeSubs, checkoutSessionMap, pendingSubscriptions,
                 locals, now, overlaps>>

\* The response has been sent: the invocation and its locals are gone.
Return(p) ==
  /\ pc[p] = "done"
  /\ pc' = [pc EXCEPT ![p] = "idle"]
  /\ event' = [event EXCEPT ![p] = NoEvent]
  /\ userId' = [userId EXCEPT ![p] = Null]
  /\ csArgs' = [csArgs EXCEPT ![p] = NoArgs]
  /\ stripeSubscription' = [stripeSubscription EXCEPT ![p] = NoStripeSub]
  /\ response' = [response EXCEPT ![p] = NoResponse]
  /\ hist' = [hist EXCEPT ![p] = NewHist(<<>>, NoEvent)]
  /\ UNCHANGED <<shared, now, faults, overlaps>>

\* ---------------------------------------------------------- specifications
Receive(p, e) ==
  \/ e = BadSignature /\ ReceiveBadSignature(p)
  \/ ReceiveCheckout(p, e)
  \/ ReceiveCreated(p, e)
  \/ ReceiveUpdated(p, e)
  \/ ReceiveDeleted(p, e)
  \/ ReceiveOther(p, e)

Step(p) ==
  \/ FindEmail1(p) \/ DebugUsers(p) \/ ValidateUser(p) \/ FindEmail2(p)
  \/ CheckExisting(p) \/ Cancel(p) \/ RetrieveInfo(p)
  \/ CsUser(p) \/ CsRetrieve(p) \/ CsCheck(p) \/ CsUpdate(p) \/ CsInsert(p)
  \/ CsVerify(p) \/ Update(p) \/ Delete(p) \/ Return(p)

Quiet == \A q \in Procs : pc[q] = "idle"

\* One request at a time: a request arrives when no handler is running.
Arrive(e) ==
  /\ Quiet
  /\ Receive("p1", e)
  /\ UNCHANGED overlaps

\* A request arrives while another handler is running.
ArriveDuring(p, e) ==
  /\ \E q \in Procs \ {p} : pc[q] \notin {"idle", "done"}
  /\ overlaps < MaxOverlaps
  /\ faults = 0
  /\ overlaps' = overlaps + 1
  /\ Receive(p, e)

NextSeq ==
  \/ \E e \in Events : Arrive(e)
  \/ \E p \in Procs : Step(p)

Next ==
  \/ \E e \in Events : Arrive(e)
  \/ \E p \in Procs, e \in Events : ArriveDuring(p, e)
  \/ \E p \in Procs : Step(p)

\* Requests handled one at a time.
SpecSeq == Init /\ [][NextSeq]_vars

\* Requests may overlap.
Spec == Init /\ [][Next]_vars

\* ------------------------------------------------------------------ claims
IsCheckout(p) == event[p].type = "checkout.session.completed"
Complete(p) == event[p].subscription # Null /\ event[p].customer # Null
Done(p) == pc[p] = "done"
RowsOf(s) == {subscriptions[i] : i \in WithId(subscriptions, s)}

\* C1: a checkout-completion event whose client reference is the UUID of
\* an existing user is delivered again (its row exists, written for that
\* user and customer, and the subscription is active): the redelivery takes
\* the update path of the upsert and exactly one row with that subscription
\* id remains.
C1_RedeliveryUpdates ==
  \A p \in Procs :
    ( /\ Done(p) /\ IsCheckout(p) /\ Complete(p)
      /\ event[p].client_reference_id \in UserIds
      /\ hist[p].fault = "none"
      /\ \E r \in hist[p].preRow :
            /\ hist[p].preRow = {r}
            /\ r.user_id = event[p].client_reference_id
            /\ r.stripe_customer_id = event[p].customer
            /\ r.status = "active" )
    => /\ hist[p].path = "update"
       /\ hist[p].inserted = 0
       /\ Cardinality(WithId(subscriptions, event[p].subscription)) = 1

\* C2: a checkout-completion event that reaches the duplicate check while
\* its customer has a row with status active or trialing inserts no row and
\* asks the provider to cancel the subscription the event carries.
C2_DuplicateBlocked ==
  \A p \in Procs :
    ( /\ Done(p) /\ IsCheckout(p) /\ Complete(p)
      /\ hist[p].resolved
      /\ hist[p].fault = "none"
      /\ hist[p].activeAtCheck >= 1 )
    => /\ hist[p].inserted = 0
       /\ event[p].subscription \in hist[p].cancelReq

\* C3: with events processed one at a time and no failing call, no
\* customer has more than one row with status active or trialing.
C3_SingleActivePerCustomer ==
  faults = 0 =>
    \A c \in Customers : Cardinality(Active(subscriptions, c)) <= 1

\* C4: of two overlapping checkout-completion events for one customer and
\* different subscription ids, at most one inserts a row.
C4_OneWriterPerCustomer ==
  \A p, q \in Procs :
    ( /\ p # q
      /\ IsCheckout(p) /\ IsCheckout(q) /\ Complete(p) /\ Complete(q)
      /\ event[p].customer = event[q].customer
      /\ event[p].subscription # event[q].subscription
      /\ faults = 0 )
    => ~(hist[p].inserted > 0 /\ hist[q].inserted > 0)

\* C5: the table never holds two rows with one subscription id, whatever
\* the interleaving of the handlers.
C5_OneRowPerSubscriptionId ==
  \A s \in SubIds : Cardinality(WithId(subscriptions, s)) <= 1

\* C5 witness: two overlapping deliveries both found no row, one inserted
\* and the other's insert was refused by the constraint.
C5_Witness ==
  \E p, q \in Procs :
    /\ p # q
    /\ hist[p].fault = "unique"
    /\ hist[q].inserted = 1
    /\ event[p].subscription = event[q].subscription

\* Equality of two e-mail addresses up to case.
SameEmail(a, b) ==
  /\ Len(a) = Len(b)
  /\ \A i \in 1..Len(a) : Lower(a[i]) = Lower(b[i])

UsersWithEmail(email) == {u.id : u \in {v \in Users : SameEmail(v.email, email)}}

\* C6: a checkout-completion event whose client reference is absent or
\* not UUID-shaped and whose e-mail is absent or is the e-mail of no user is
\* answered with a client error, writes no row and never calls the provider
\* (no call of the run failing).
C6_UnresolvedIdentityRejected ==
  \A p \in Procs :
    ( /\ Done(p) /\ IsCheckout(p) /\ Complete(p)
      /\ (event[p].client_reference_id = Null
            \/ ~MatchesUuid(event[p].client_reference_id))
      /\ (event[p].email = NoEmail \/ UsersWithEmail(event[p].email) = {})
      /\ hist[p].fault = "none" )
    => /\ response[p].status >= 400
       /\ hist[p].inserted = 0
       /\ hist[p].providerCalls = 0

C8_CreatedThenCheckout ==
  \A p \in Procs :
    ( /\ Done(p) /\ IsCheckout(p) /\ Complete(p)
      /\ event[p].subscription \in DOMAIN pendingSubscriptions
      /\ event[p].client_reference_id \in UserIds
      /\ hist[p].preActive = 0
      /\ \A r \in hist[p].preRow :
            /\ r.user_id = event[p].client_reference_id
            /\ r.stripe_customer_id = event[p].customer
      /\ hist[p].fault = "none" )
    => /\ Cardinality(WithId(subscriptions, event[p].subscription)) = 1
       /\ \A r \in RowsOf(event[p].subscription) :
            /\ r.user_id = event[p].client_reference_id
            /\ r.stripe_customer_id = event[p].customer

\* C8 witness: the checkout-completion found the pending entry of the
\* earlier subscription-created event and inserted the row.
C8_Witness ==
  \E p \in Procs :
    /\ Done(p) /\ IsCheckout(p)
    /\ event[p].subscription \in DOMAIN pendingSubscriptions
    /\ event[p].client_reference_id \in UserIds
    /\ hist[p].preRow = {}
    /\ hist[p].path = "insert"
    /\ response[p] = [status |-> 200, body |-> "received"]

\* C9: a store write that fails while a subscription-updated,
\* pending-update, trial-will-end or subscription-deleted event is processed
\* is answered with an error status.
C9_WriteFailurePropagates ==
  \A p \in Procs :
    ( /\ Done(p)
      /\ event[p].type \in UpdateTypes \cup {"customer.subscription.deleted"}
      /\ hist[p].fault \in {"update", "delete"} )
    => response[p].status >= 400

\* C10: a checkout-completion event that reached the duplicate check and
\* then met a failure of the store or the provider (in the check, the
\* cancellation or the upsert) is acknowledged with status 200.
HandledFaults ==
  {"check", "cancel", "cs_user", "retrieve", "cs_check", "cs_update",
   "cs_insert", "unique", "cs_verify"}

C10_CheckoutFailureAcknowledged ==
  \A p \in Procs :
    ( /\ Done(p) /\ IsCheckout(p) /\ Complete(p)
      /\ hist[p].resolved
      /\ hist[p].fault \in HandledFaults )
    => response[p].status = 200

\* C10 witness: the insert failed and the event was acknowledged with the
\* warning.
C10_Witness ==
  \E p \in Procs :
    /\ Done(p) /\ IsCheckout(p)
    /\ hist[p].fault = "cs_insert"
    /\ response[p] = [status |-> 200, body |-> "warning"]

\* A step of handler p: its position changes.
Moves(p) == pc'[p] # pc[p]

\* C11: while a subscription-updated, pending-update or trial-will-end
\* event whose subscription id selects no row is handled, every step of its
\* handler leaves the table, the provider and the two maps as they are, and
\* the answer it ends with has status 200.
C11_UpdateUnknownNoOp ==
  [][\A p \in Procs :
       ( /\ Moves(p)
         /\ pc'[p] \in {"update", "done"}
         /\ event'[p].type \in UpdateTypes
         /\ WithId(subscriptions, event'[p].subscription) = {} )
       => /\ shared' = shared
          /\ pc'[p] = "done" => response'[p].status = 200]_vars

\* C11 witness: such an event has been answered while the table holds a
\* row of another subscription.
C11_Witness ==
  \E p \in Procs :
    /\ Done(p)
    /\ event[p].type \in UpdateTypes
    /\ hist[p].preRow = {}
    /\ hist[p].fault = "none"
    /\ subscriptions # <<>>
    /\ WithId(subscriptions, event[p].subscription) = {}
    /\ response[p].status = 200

\* C12: when the handler of a subscription-deleted event has run its
\* update (the store answering) and the event's subscription id selects a
\* row, that row is still there with the status the event reports and the
\* cancel-at-period-end flag false, whatever they were before; no row is
\* added or removed and every other row is as it was.
C12_DeletedIsTerminal ==
  [][\A p \in Procs :
       ( /\ pc[p] = "delete" /\ pc'[p] = "done"
         /\ hist'[p].fault = "none"
         /\ WithId(subscriptions, event[p].subscription) # {} )
       => /\ DOMAIN subscriptions' = DOMAIN subscriptions
          /\ \A i \in DOMAIN subscriptions :
                IF i \in WithId(subscriptions, event[p].subscription)
                THEN /\ subscriptions'[i].status = event[p].status
                     /\ subscriptions'[i].cancel_at_period_end = FALSE
                     /\ subscriptions'[i].stripe_subscription_id =
                          event[p].subscription
                     /\ subscriptions'[i].user_id = subscriptions[i].user_id
                ELSE subscriptions'[i] = subscriptions[i]]_vars

\* C12 witness: the table holds two rows; the deleted event found the row
\* of its subscription not canceled and left it canceled with the flag
\* false, next to the other row.
C12_Witness ==
  \E p \in Procs :
    /\ Done(p)
    /\ event[p].type = "customer.subscription.deleted"
    /\ hist[p].fault = "none"
    /\ Len(subscriptions) = 2
    /\ \E r \in hist[p].preRow : r.status # event[p].status
    /\ \A r \in RowsOf(event[p].subscription) :
          r.status = event[p].status /\ ~r.cancel_at_period_end
    /\ \E i \in DOMAIN subscriptions :
          /\ subscriptions[i].stripe_subscription_id # event[p].subscription
          /\ subscriptions[i].status # event[p].status

\* C13: a checkout-completion event without subscription id or without
\* customer id is answered at once with a client error: the step that
\* receives it ends the handler with a status of 400 or more, reads no
\* user, takes no user id, calls the provider not at all, and leaves the
\* table, the provider and the two maps as they are.
C13_MalformedCheckoutRejected ==
  [][\A p \in Procs :
       ( /\ Moves(p) /\ pc[p] = "idle"
         /\ event'[p].type = "checkout.session.completed"
         /\ (event'[p].subscription = Null \/ event'[p].customer = Null) )
       => /\ pc'[p] = "done"
          /\ response'[p].status >= 400
          /\ hist'[p].userLookups = 0
          /\ hist'[p].providerCalls = 0
          /\ hist'[p].cancelReq = {}
          /\ userId'[p] = Null
          /\ shared' = shared]_vars

\* C13 witness: such an event has been rejected while the table holds a
\* row.
C13_Witness ==
  \E p \in Procs :
    /\ Done(p) /\ IsCheckout(p) /\ ~Complete(p)
    /\ subscriptions # <<>>
    /\ response[p].status = 400

\* The fields of a row that say whose subscription it is.
SameIdentity(r, q) ==
  /\ r.stripe_subscription_id = q.stripe_subscription_id
  /\ r.user_id = q.user_id
  /\ r.stripe_customer_id = q.stripe_customer_id
  /\ r.price_id = q.price_id
  /\ r.created_at = q.created_at

\* C14: no step of any handler, whatever the interleaving, removes a row:
\* every row of the table is in the table after the step, at its place
\* and with its subscription id; and the steps that write for a
\* subscription-updated or subscription-deleted event or cancel at the
\* provider change, of the rows there are, nothing but status,
\* cancel-at-period-end flag, period end and update time.
C14_RowsNeverRemoved ==
  [][/\ Len(subscriptions') >= Len(subscriptions)
     /\ \A i \in DOMAIN subscriptions :
           subscriptions'[i].stripe_subscription_id =
             subscriptions[i].stripe_subscription_id
     /\ \A p \in Procs :
           (Moves(p) /\ pc[p] \in {"update", "delete", "cancel"})
           => /\ Len(subscriptions') = Len(subscriptions)
              /\ \A i \in DOMAIN subscriptions :
                    SameIdentity(subscriptions'[i], subscriptions[i])]_vars

\* C14 witness: a subscription-deleted event found the row of its
\* subscription, and after it the row is in the table, canceled.
C14_Witness ==
  \E p \in Procs :
    /\ Done(p)
    /\ event[p].type = "customer.subscription.deleted"
    /\ hist[p].preRow # {}
    /\ Len(subscriptions) = hist[p].preLen
    /\ \E r \in RowsOf(event[p].subscription) :
          /\ r.status = "canceled"
          /\ \E q \in hist[p].preRow : SameIdentity(r, q) /\ q.status # "canceled"

\* C15: the step that receives a request whose signature does not verify
\* ends the handler with a status of 400 or more; it reads no user, calls
\* the provider not at all and leaves the table, the provider and the two
\* maps as they are.
C15_BadSignatureRejected ==
  [][\A p \in Procs :
       (Moves(p) /\ pc[p] = "idle" /\ ~event'[p].sigOk)
       => /\ pc'[p] = "done"
          /\ response'[p].status >= 400
          /\ hist'[p].userLookups = 0
          /\ hist'[p].providerCalls = 0
          /\ hist'[p].cancelReq = {}
          /\ shared' = shared]_vars

\* C15 witness: such a request has been rejected while the table holds a
\* row and the pending map an entry.
C15_Witness ==
  \E p \in Procs :
    /\ Done(p)
    /\ ~event[p].sigOk
    /\ subscriptions # <<>>
    /\ DOMAIN pendingSubscriptions # {}
    /\ response[p] = [status |-> 400,
                      body |-> "Webhook signature verification failed"]

HandledTypes ==
  {"checkout.session.completed", "customer.subscription.created",
   "customer.subscription.deleted"} \cup UpdateTypes

\* C16: the step that receives a verified event of a type that is none of
\* the seven handled types ends the handler with status 200; it reads no
\* user, calls the provider not at all and leaves the table, the provider
\* and the two maps as they are.
C16_OtherEventsAcknowledged ==
  [][\A p \in Procs :
       ( /\ Moves(p) /\ pc[p] = "idle"
         /\ event'[p].sigOk
         /\ event'[p].type \notin HandledTypes )
       => /\ pc'[p] = "done"
          /\ response'[p].status = 200
          /\ hist'[p].userLookups = 0
          /\ hist'[p].providerCalls = 0
          /\ hist'[p].cancelReq = {}
          /\ shared' = shared]_vars

\* C16 witness: an invoice event about a subscription that has a row has
\* been acknowledged, the row as it was.
C16_Witness ==
  \E p \in Procs :
    /\ Done(p)
    /\ event[p].sigOk
    /\ event[p].type = "invoice.paid"
    /\ hist[p].preRow # {}
    /\ RowsOf(event[p].subscription) = hist[p].preRow
    /\ response[p] = [status |-> 200, body |-> "received"]

\* C17: a subscription-created event for S received after a
\* checkout-completion event for S has been processed with success (S has
\* its row) runs the upsert for S, with the user and the customer of the
\* checkout, and leaves no entry for S in checkoutSessionMap.
C17_CreatedConsumesAssociation ==
  \A p \in Procs :
    ( /\ Done(p)
      /\ event[p].type = "customer.subscription.created"
      /\ hist[p].preRow # {}
      /\ hist[p].fault = "none" )
    => /\ hist[p].path \in {"insert", "update"}
       /\ csArgs[p].subscriptionId = event[p].subscription
       /\ \E r \in hist[p].preRow :
             /\ csArgs[p].userId = r.user_id
             /\ csArgs[p].customerId = r.stripe_customer_id
       /\ event[p].subscription \notin DOMAIN checkoutSessionMap

\* C18: the step that receives a subscription-created event for which
\* checkoutSessionMap has no entry ends the handler with status 200; after
\* it pendingSubscriptions holds, under the event's subscription id, that
\* id and the event's customer id, and its other entries as before; no row
\* is written, the provider is not called, and checkoutSessionMap is as it
\* was.
C18_CreatedIsStashed ==
  [][\A p \in Procs :
       ( /\ Moves(p) /\ pc[p] = "idle"
         /\ event'[p].type = "customer.subscription.created"
         /\ event'[p].subscription \notin DOMAIN checkoutSessionMap )
       => /\ pc'[p] = "done"
          /\ response'[p].status = 200
          /\ DOMAIN pendingSubscriptions' =
               DOMAIN pendingSubscriptions \cup {event'[p].subscription}
          /\ pendingSubscriptions'[event'[p].subscription].subscriptionId =
               event'[p].subscription
          /\ pendingSubscriptions'[event'[p].subscription].customerId =
               event'[p].customer
          /\ \A s \in DOMAIN pendingSubscriptions \ {event'[p].subscription} :
                pendingSubscriptions'[s] = pendingSubscriptions[s]
          /\ hist'[p].providerCalls = 0
          /\ hist'[p].cancelReq = {}
          /\ UNCHANGED <<subscriptions, stripeSubs, checkoutSessionMap>>]_vars

\* C18 witness: a second subscription-created event has been stashed next
\* to the first, and no row was written.
C18_Witness ==
  \E p \in Procs :
    /\ Done(p)
    /\ event[p].type = "customer.subscription.created"
    /\ response[p] = [status |-> 200, body |-> "received"]
    /\ DOMAIN pendingSubscriptions = SubIds
    /\ \A s \in SubIds :
          /\ pendingSubscriptions[s].subscriptionId = s
          /\ pendingSubscriptions[s].customerId = StripeCustomer(s)
    /\ hist[p].path = "none"
    /\ Len(subscriptions) = hist[p].preLen

\* C19: the owner of every row is a user of the users table; and a
\* checkout-completion event whose validation of the user id (line 187)
\* failed or found nothing, and whose e-mail is absent or is the e-mail of
\* no user, is answered with a client error and inserts no row.
C19_OwnerIsValidatedUser ==
  /\ \A i \in DOMAIN subscriptions : subscriptions[i].user_id \in UserIds
  /\ \A p \in Procs :
        ( /\ Done(p) /\ IsCheckout(p) /\ Complete(p)
          /\ hist[p].validation = "missing"
          /\ (event[p].email = NoEmail \/ UsersWithEmail(event[p].email) = {}) )
        => /\ response[p].status >= 400
           /\ hist[p].inserted = 0

\* C20: for a checkout-completion event whose client reference is
\* UUID-shaped and is the id of no user (no call of the run failing),
\* findUserIdByEmail is called once when the event has an e-mail and never
\* otherwise; when the e-mail is, up to case, the e-mail of a user (and
\* the customer has no active or trialing row and the subscription no
\* row), one row is inserted and its owner is that user; when it is not,
\* the answer is a client error and no row is inserted.
C20_EmailFallbackOnce ==
  \A p \in Procs :
    ( /\ Done(p) /\ IsCheckout(p) /\ Complete(p)
      /\ MatchesUuid(event[p].client_reference_id)
      /\ event[p].client_reference_id \notin UserIds
      /\ hist[p].fault = "none" )
    => /\ hist[p].emailLookups = (IF event[p].email = NoEmail THEN 0 ELSE 1)
       /\ IF UsersWithEmail(event[p].email) # {}
          THEN (hist[p].preActive = 0 /\ hist[p].preRow = {})
               => /\ hist[p].inserted = 1
                  /\ Len(subscriptions) = hist[p].preLen + 1
                  /\ subscriptions[Len(subscriptions)].user_id
                       \in UsersWithEmail(event[p].email)
                  /\ subscriptions[Len(subscriptions)].stripe_subscription_id
                       = event[p].subscription
          ELSE /\ response[p].status >= 400
               /\ hist[p].inserted = 0

\* The subscription id the writing step of handler p selects rows by.
WrittenId(p) ==
  IF pc[p] = "cs_update" THEN csArgs[p].subscriptionId
  ELSE event[p].subscription

\* C21: no step changes subscription id, owner, customer, price or
\* creation time of a row that is in the table; and the update step of the
\* upsert and the steps that write for a subscription-updated or
\* subscription-deleted event add no row and leave every row with another
\* subscription id exactly as it was.
C21_IdentityFieldsFrozen ==
  [][/\ \A i \in DOMAIN subscriptions :
           /\ i \in DOMAIN subscriptions'
           /\ SameIdentity(subscriptions'[i], subscriptions[i])
     /\ \A p \in Procs :
           (Moves(p) /\ pc[p] \in {"cs_update", "update", "delete"})
           => /\ DOMAIN subscriptions' = DOMAIN subscriptions
              /\ \A i \in DOMAIN subscriptions :
                    subscriptions[i].stripe_subscription_id # WrittenId(p)
                    => subscriptions'[i] = subscriptions[i]]_vars

\* C21 witness: a checkout-completion event found the row of its
\* subscription and took the update path of the upsert; the row has a new
\* update time and its identity fields as before, next to a row of
\* another subscription.
C21_Witness ==
  \E p \in Procs :
    /\ Done(p) /\ IsCheckout(p)
    /\ hist[p].path = "update"
    /\ Len(subscriptions) = 2
    /\ \E r \in RowsOf(event[p].subscription) :
          \E q \in hist[p].preRow :
             SameIdentity(r, q) /\ r.updated_at # q.updated_at

\* C22: for every content of the table and every customer,
\* checkExistingSubscription answers true exactly when the table holds at
\* least one row of that customer with status active or trialing.
C22_CheckExistingIsExistence ==
  \A c \in Customers :
    checkExistingSubscription(subscriptions, c)
      <=> (Active(subscriptions, c) # {})

\* C23: with no call failing, a subscription a handler has asked the
\* provider to cancel has no row in the table.
C23_CancelOnlyUnrecorded ==
  faults = 0 =>
    \A p \in Procs :
      \A s \in hist[p].cancelReq : WithId(subscriptions, s) = {}

====
